---- MODULE Spec2Model ----
(***************************************************************************)
(* A model of instalooter/looters.py: InstaLooter.download, its discovery  *)
(* loop _fill_media_queue, the worker pool helpers (_init_workers,         *)
(* _poison_workers, _join_workers, _shutdown_workers) and                  *)
(* PostLooter.download.                                                    *)
(*                                                                         *)
(* The download worker (instalooter/worker.py), the page and media         *)
(* iterators and the name generator are not part of the modelled file:     *)
(* they are modelled from their contracts in the specification.            *)
(***************************************************************************)
EXTENDS Integers, Sequences, FiniteSets, TLC

\* ------------------------------------------------------------------ bounds
\* Longest media sequence the iterator produces in the fill specification.
MaxLen == 2

\* Longest media sequence in the worker-pool specification.
MaxPoolLen == 2

\* Largest `jobs` (worker pool size) explored.
MaxJobs == 2

\* Latest taken_at_timestamp explored; the timestamps are 1..MaxTime.
MaxTime == 3

VARIABLES
    entry,          \* the method invoked: "fill", "download" or "post"
    cfg,            \* looter attributes and call arguments (fixed during a run)
    posts,          \* what the remote holds: the posts of the target, in page order
    pos,            \* number of items taken from medias_iter so far
    destfs,         \* target paths that exist in the destination filesystem
    queue,          \* the download queue (FIFO)
    medias_queued,  \* the running count of _fill_media_queue
    pc,             \* position of the main thread
    i,              \* loop index of _init_workers / _poison_workers / _join_workers
    workers,        \* the started workers: sequence of [state, media, killed]
    registered,     \* atexit.register(self._shutdown_workers, workers) was executed
    exited,         \* the exit hooks of the process have run
    dest_open,      \* the filesystem _init_destfs opened from a URL is still open
    put_log,        \* history: every item put on the queue, in order
    taken_by,       \* history: shortcode -> the workers that dequeued it, in order
    finished,       \* history: shortcodes whose processing has ended
    failed,         \* history: shortcodes whose download failed
    warned,         \* warnings.warn("No medias found.") was issued
    error           \* the exception that left the method: "None" while there is none

vars == <<entry, cfg, posts, pos, destfs, queue, medias_queued, pc, i, workers,
          registered, exited, dest_open, put_log, taken_by, finished, failed, warned, error>>

\* ------------------------------------------------------------ media records
\* A child node of a GraphSidecar.
img == [typename |-> "GraphImage", is_video |-> FALSE]
vid == [typename |-> "GraphVideo", is_video |-> TRUE]

\* The media dictionaries, reduced to the keys looters.py reads:
\* __typename, is_video, shortcode, edge_sidecar_to_children.edges,
\* taken_at_timestamp (0 where no run reads it); `detailed` tells the
\* dictionary returned by get_post_info from the one found in a page.
Media(code, typename, is_video, children) ==
    [shortcode |-> code, typename |-> typename, is_video |-> is_video,
     children |-> children, detailed |-> FALSE, taken_at_timestamp |-> 0]

\* The poison pill: queue.put(None).
None == [shortcode |-> 0, typename |-> "None", is_video |-> FALSE,
         children |-> <<>>, detailed |-> FALSE, taken_at_timestamp |-> 0]

\* The child lists of the sidecars explored.
ChildLists == {<<vid, vid>>, <<img, vid>>, <<vid, img, vid, img>>}

\* The kinds of post explored; a GraphSidecar itself carries is_video = false.
Kinds ==
    {[typename |-> "GraphImage", is_video |-> FALSE, children |-> <<>>],
     [typename |-> "GraphVideo", is_video |-> TRUE, children |-> <<>>]}
    \cup {[typename |-> "GraphSidecar", is_video |-> FALSE, children |-> c] :
             c \in ChildLists}

\* Post sequences of length n; the shortcode of a post is its position.
PostSeqs(n, kinds) ==
    {[p \in 1..n |-> Media(p, k[p].typename, k[p].is_video, k[p].children)] :
        k \in [1..n -> kinds]}

\* What a page holds for a post (the record the media iterator yields).
Summary(post) == [post EXCEPT !.detailed = FALSE]

\* What get_post_info returns for a shortcode: the detailed form of that post.
PostInfo(code) == [posts[code] EXCEPT !.detailed = TRUE]

\* Outcomes of a remote request: TRUE it answers, FALSE it raises.
Remote == IF cfg.faulty THEN {TRUE, FALSE} ELSE {TRUE}

\* ---------------------------------------------------------------- condition
\* Mutant: the videos_only attribute is not looked at.
DefaultConditionIgnoresVideosOnly(media) ==
    IF ~cfg.get_videos THEN ~media.is_video
    ELSE TRUE

\* The condition built from the looter's attributes when none is passed.
DefaultCondition(media) ==
    IF cfg.videos_only THEN media.is_video
    ELSE IF ~cfg.get_videos THEN ~media.is_video
    ELSE TRUE

\* The condition of the run: the default one, or the one download_pictures /
\* download_videos pass.
condition(media) ==
    CASE cfg.condition = "None" -> DefaultCondition(media)
      [] cfg.condition = "pictures" -> ~media.is_video
      [] cfg.condition = "videos" -> media.is_video

\* NameGenerator.needs_extended: the template names a key only the detailed
\* form carries.
needs_extended(media) == cfg.template_extended /\ ~media.detailed

\* "Check if the whole post info is required".
NeedsPostInfo(media) == needs_extended(media) \/ media.typename # "GraphImage"

\* list.remove(x): drops the first element equal to x.
RECURSIVE remove(_, _)
remove(edges, x) ==
    IF edges = <<>> THEN <<>>
    ELSE IF Head(edges) = x THEN Tail(edges)
    ELSE <<Head(edges)>> \o remove(Tail(edges), x)

\* for sidecar in edges[:]: if not condition(node): edges.remove(sidecar)
RECURSIVE PruneLoop(_, _)
PruneLoop(copy, edges) ==
    IF copy = <<>> THEN edges
    ELSE IF ~condition(Head(copy)) THEN PruneLoop(Tail(copy), remove(edges, Head(copy)))
    ELSE PruneLoop(Tail(copy), edges)

\* Mutant: the loop removes from the list it iterates (no [:] copy), so the
\* element after a removed one is skipped.
RECURSIVE PruneInPlace(_, _)
PruneInPlace(edges, idx) ==
    IF idx > Len(edges) THEN edges
    ELSE IF ~condition(edges[idx]) THEN PruneInPlace(remove(edges, edges[idx]), idx + 1)
    ELSE PruneInPlace(edges, idx + 1)

PruneSidecarNoCopy(media) ==
    IF media.typename = "GraphSidecar"
    THEN [media EXCEPT !.children = PruneInPlace(media.children, 1)]
    ELSE media

\* "Check that sidecar children fit the condition".
PruneSidecar(media) ==
    IF media.typename = "GraphSidecar"
    THEN [media EXCEPT !.children = PruneLoop(media.children, media.children)]
    ELSE media

\* destination.exists(self.namegen.file(media)): the target path is named after
\* the post itself, also for a sidecar.
Exists(media) == media.shortcode \in destfs

\* Mutant: a media whose file exists in the destination is not put.
LoopBodyOnSkipExisting(dest, media, fetch_ok) ==
    IF NeedsPostInfo(media) /\ ~fetch_ok THEN [kind |-> "raise", media |-> media]
    ELSE LET full == IF NeedsPostInfo(media) THEN PostInfo(media.shortcode) ELSE media
             kept == PruneSidecar(full)
         IN  IF kept.typename = "GraphSidecar" /\ kept.children = <<>>
             THEN [kind |-> "continue", media |-> kept]
             ELSE IF kept.shortcode \in dest
             THEN [kind |-> (IF cfg.new_only THEN "break" ELSE "continue"), media |-> kept]
             ELSE [kind |-> "put", media |-> kept]

\* The body of the for loop of _fill_media_queue as a function of the files
\* the destination holds.
LoopBodyOn(dest, media, fetch_ok) ==
    IF NeedsPostInfo(media) /\ ~fetch_ok THEN [kind |-> "raise", media |-> media]
    ELSE LET full == IF NeedsPostInfo(media) THEN PostInfo(media.shortcode) ELSE media
             kept == PruneSidecar(full)
         IN  IF kept.typename = "GraphSidecar" /\ kept.children = <<>>
             THEN [kind |-> "continue", media |-> kept]
             ELSE IF kept.shortcode \in dest /\ cfg.new_only
             THEN [kind |-> "break", media |-> kept]
             ELSE [kind |-> "put", media |-> kept]

\* Mutant: an existing file never stops the fill (the break is lost).
LoopBodyNoBreak(media, fetch_ok) ==
    IF NeedsPostInfo(media) /\ ~fetch_ok THEN [kind |-> "raise", media |-> media]
    ELSE LET full == IF NeedsPostInfo(media) THEN PostInfo(media.shortcode) ELSE media
             kept == PruneSidecar(full)
         IN  IF kept.typename = "GraphSidecar" /\ kept.children = <<>>
             THEN [kind |-> "continue", media |-> kept]
             ELSE [kind |-> "put", media |-> kept]

\* Mutant: a media whose file exists is skipped, whatever new_only says.
LoopBodySkipExisting(media, fetch_ok) ==
    IF NeedsPostInfo(media) /\ ~fetch_ok THEN [kind |-> "raise", media |-> media]
    ELSE LET full == IF NeedsPostInfo(media) THEN PostInfo(media.shortcode) ELSE media
             kept == PruneSidecar(full)
         IN  IF kept.typename = "GraphSidecar" /\ kept.children = <<>>
             THEN [kind |-> "continue", media |-> kept]
             ELSE IF Exists(kept)
             THEN [kind |-> (IF cfg.new_only THEN "break" ELSE "continue"), media |-> kept]
             ELSE [kind |-> "put", media |-> kept]

\* Mutant: a sidecar left without children is put on the queue all the same.
LoopBodyPutsEmptySidecar(media, fetch_ok) ==
    IF NeedsPostInfo(media) /\ ~fetch_ok THEN [kind |-> "raise", media |-> media]
    ELSE LET full == IF NeedsPostInfo(media) THEN PostInfo(media.shortcode) ELSE media
             kept == PruneSidecar(full)
         IN  IF Exists(kept) /\ cfg.new_only
             THEN [kind |-> "break", media |-> kept]
             ELSE [kind |-> "put", media |-> kept]

\* The body of the for loop of _fill_media_queue for one media that passed
\* filter(condition, ...); fetch_ok is the outcome of get_post_info when called.
LoopBody(media, fetch_ok) == LoopBodyOn(destfs, media, fetch_ok)

\* if media_count is not None and medias_queued >= media_count: break
CountReached(n) == cfg.media_count_given /\ n >= cfg.media_count

\* timeframe=None, and a timeframe (start, end) with start the later bound.
NoTimeframe == [given |-> FALSE, start |-> 0, end |-> 0]

\* The media was taken after the start, or before the end, of the timeframe.
Newer(media) == media.taken_at_timestamp > cfg.timeframe.start
Older(media) == media.taken_at_timestamp < cfg.timeframe.end

\* next(medias_iter): the next media, the end of the iteration, or the error of
\* the remote request behind it. PostLooter.download iterates self.medias()
\* (no timeframe is passed on), which yields self.info, fetched by
\* get_post_info; the other looters yield what their pages hold, through
\* _medias: with a timeframe the TimedMediasIterator ends at the first media
\* older than the timeframe and passes over ("skip") one that is newer.
NextMedia(page_ok) ==
    IF pos >= Len(posts) THEN [kind |-> "stop", media |-> None]
    ELSE IF ~page_ok THEN [kind |-> "raise", media |-> None]
    ELSE IF entry = "post" THEN [kind |-> "item", media |-> PostInfo(pos + 1)]
    ELSE IF cfg.timeframe.given /\ Older(posts[pos + 1])
    THEN [kind |-> "stop", media |-> None]
    ELSE IF cfg.timeframe.given /\ Newer(posts[pos + 1])
    THEN [kind |-> "skip", media |-> None]
    ELSE [kind |-> "item", media |-> Summary(posts[pos + 1])]

\* The records a whole run of _fill_media_queue puts, from record p on with
\* `acc` already put, on a destination holding `dest` and a remote that
\* answers: the loop of lines 556-587 as a function of its inputs.
RECURSIVE FillOn(_, _, _)
FillOn(dest, p, acc) ==
    IF p > Len(posts) THEN acc
    ELSE LET media == IF entry = "post" THEN PostInfo(p) ELSE Summary(posts[p])
         IN  IF ~condition(media) THEN FillOn(dest, p + 1, acc)
             ELSE LET out == LoopBodyOn(dest, media, TRUE)
                  IN  CASE out.kind = "continue" -> FillOn(dest, p + 1, acc)
                        [] out.kind = "break" -> acc
                        [] out.kind = "put" ->
                             IF CountReached(Len(acc) + 1)
                             THEN Append(acc, out.media)
                             ELSE FillOn(dest, p + 1, Append(acc, out.media))

\* -------------------------------------------------------- _fill_media_queue
FillUnchanged == UNCHANGED <<entry, cfg, posts, destfs, i, workers, registered,
                             exited, dest_open, taken_by, finished, failed, warned>>

\* The iterator is exhausted: the loop ends and the count is returned.
FillExhausted ==
    /\ pc = "fill"
    /\ NextMedia(TRUE).kind = "stop"
    /\ pc' = "filled"
    /\ UNCHANGED <<pos, queue, medias_queued, put_log, error>>
    /\ FillUnchanged

\* Mutant: the error of the request is swallowed and the loop goes on with
\* the next media.
FillSourceErrorSwallowed ==
    /\ pc = "fill"
    /\ \E page_ok \in Remote : NextMedia(page_ok).kind = "raise"
    /\ pos' = pos + 1
    /\ error' = "SourceUnavailable"
    /\ UNCHANGED <<pc, queue, medias_queued, put_log>>
    /\ FillUnchanged

\* The request behind the iteration raises: the error leaves the method.
FillSourceError ==
    /\ pc = "fill"
    /\ \E page_ok \in Remote : NextMedia(page_ok).kind = "raise"
    /\ pc' = "raised"
    /\ error' = "SourceUnavailable"
    /\ UNCHANGED <<pos, queue, medias_queued, put_log>>
    /\ FillUnchanged

\* filter(condition, medias_iter) takes a media that fails the condition.
FillReject ==
    /\ pc = "fill"
    /\ NextMedia(TRUE).kind = "item"
    /\ ~condition(NextMedia(TRUE).media)
    /\ pos' = pos + 1
    /\ UNCHANGED <<pc, queue, medias_queued, put_log, error>>
    /\ FillUnchanged

\* Mutant: a sidecar left without children is counted although it is not put.
FillBodyCountsSkipped ==
    /\ pc = "fill"
    /\ NextMedia(TRUE).kind = "item"
    /\ condition(NextMedia(TRUE).media)
    /\ \E fetch_ok \in Remote :
         LET out == LoopBody(NextMedia(TRUE).media, fetch_ok)
         IN  /\ pos' = pos + 1
             /\ \/ /\ out.kind = "raise"
                   /\ pc' = "raised"
                   /\ error' = "ItemFetchFailed"
                   /\ UNCHANGED <<queue, medias_queued, put_log>>
                \/ /\ out.kind = "continue"
                   /\ medias_queued' = medias_queued + 1
                   /\ UNCHANGED <<pc, queue, put_log, error>>
                \/ /\ out.kind = "break"
                   /\ pc' = "filled"
                   /\ UNCHANGED <<queue, medias_queued, put_log, error>>
                \/ /\ out.kind = "put"
                   /\ queue' = Append(queue, out.media)
                   /\ put_log' = Append(put_log, out.media)
                   /\ medias_queued' = medias_queued + 1
                   /\ pc' = IF CountReached(medias_queued + 1) THEN "filled" ELSE "fill"
                   /\ UNCHANGED error
    /\ FillUnchanged

\* Mutant: the record is put at the front of the queue.
FillBodyPutsInFront ==
    /\ pc = "fill"
    /\ NextMedia(TRUE).kind = "item"
    /\ condition(NextMedia(TRUE).media)
    /\ \E fetch_ok \in Remote :
         LET out == LoopBody(NextMedia(TRUE).media, fetch_ok)
         IN  /\ pos' = pos + 1
             /\ \/ /\ out.kind = "raise"
                   /\ pc' = "raised"
                   /\ error' = "ItemFetchFailed"
                   /\ UNCHANGED <<queue, medias_queued, put_log>>
                \/ /\ out.kind = "continue"
                   /\ UNCHANGED <<pc, queue, medias_queued, put_log, error>>
                \/ /\ out.kind = "break"
                   /\ pc' = "filled"
                   /\ UNCHANGED <<queue, medias_queued, put_log, error>>
                \/ /\ out.kind = "put"
                   /\ queue' = <<out.media>> \o queue
                   /\ put_log' = Append(put_log, out.media)
                   /\ medias_queued' = medias_queued + 1
                   /\ pc' = IF CountReached(medias_queued + 1) THEN "filled" ELSE "fill"
                   /\ UNCHANGED error
    /\ FillUnchanged

\* One pass of the loop body for a media that passes the condition.
FillBody ==
    /\ pc = "fill"
    /\ NextMedia(TRUE).kind = "item"
    /\ condition(NextMedia(TRUE).media)
    /\ \E fetch_ok \in Remote :
         LET out == LoopBody(NextMedia(TRUE).media, fetch_ok)
         IN  /\ pos' = pos + 1
             /\ \/ /\ out.kind = "raise"
                   /\ pc' = "raised"
                   /\ error' = "ItemFetchFailed"
                   /\ UNCHANGED <<queue, medias_queued, put_log>>
                \/ /\ out.kind = "continue"
                   /\ UNCHANGED <<pc, queue, medias_queued, put_log, error>>
                \/ /\ out.kind = "break"
                   /\ pc' = "filled"
                   /\ UNCHANGED <<queue, medias_queued, put_log, error>>
                \/ /\ out.kind = "put"
                   /\ queue' = Append(queue, out.media)
                   /\ put_log' = Append(put_log, out.media)
                   /\ medias_queued' = medias_queued + 1
                   /\ pc' = IF CountReached(medias_queued + 1) THEN "filled" ELSE "fill"
                   /\ UNCHANGED error
    /\ FillUnchanged

FillNext == FillExhausted \/ FillSourceError \/ FillReject \/ FillBody

\* --------------------------------------------- the inputs of a fill
\* Condition and constructor argument combinations: no condition with every
\* value of get_videos and videos_only, and the two explicit conditions.
ConditionChoices ==
    {[condition |-> "None", get_videos |-> FALSE, videos_only |-> FALSE],
     [condition |-> "None", get_videos |-> TRUE, videos_only |-> FALSE],
     [condition |-> "None", get_videos |-> FALSE, videos_only |-> TRUE],
     [condition |-> "None", get_videos |-> TRUE, videos_only |-> TRUE],
     [condition |-> "pictures", get_videos |-> FALSE, videos_only |-> FALSE],
     [condition |-> "videos", get_videos |-> FALSE, videos_only |-> FALSE]}

\* media_count: None, or a number up to the length of the sequence.
CountChoices(n) ==
    {[media_count_given |-> FALSE, media_count |-> 0]}
    \cup {[media_count_given |-> TRUE, media_count |-> k] : k \in 0..n}

\* The looter as __init__ leaves it (get_videos_arg is the argument,
\* get_videos the attribute: self.get_videos = get_videos or videos_only) and
\* the arguments of the call.
Config(c, k, new_only, template_extended, extended_dump, faulty, jobs, dest_is_url) ==
    [condition |-> c.condition, get_videos_arg |-> c.get_videos,
     get_videos |-> (c.get_videos \/ c.videos_only),
     videos_only |-> c.videos_only, extended_dump |-> extended_dump,
     media_count_given |-> k.media_count_given, media_count |-> k.media_count,
     new_only |-> new_only, template_extended |-> template_extended,
     faulty |-> faulty, jobs |-> jobs, dest_is_url |-> dest_is_url,
     timeframe |-> NoTimeframe]

\* State shared by every entry point before the first statement runs.
Fresh ==
    /\ pos = 0
    /\ queue = <<>>
    /\ medias_queued = 0
    /\ i = 0
    /\ workers = <<>>
    /\ registered = FALSE
    /\ exited = FALSE
    /\ dest_open = FALSE
    /\ put_log = <<>>
    /\ taken_by = [p \in 1..Len(posts) |-> <<>>]
    /\ finished = {}
    /\ failed = {}
    /\ warned = FALSE
    /\ error = "None"

\* _fill_media_queue called on an empty queue, for every input within the bounds.
InitFill ==
    /\ entry = "fill"
    /\ \E n \in 0..MaxLen :
         /\ posts \in PostSeqs(n, Kinds)
         /\ destfs \in SUBSET (1..n)
         /\ \E c \in ConditionChoices, k \in CountChoices(n),
               new_only \in BOOLEAN, template_extended \in BOOLEAN,
               extended_dump \in BOOLEAN, faulty \in BOOLEAN :
              cfg = Config(c, k, new_only, template_extended, extended_dump,
                           faulty, 0, FALSE)
    /\ pc = "fill"
    /\ Fresh

SpecFill == InitFill /\ [][FillNext]_vars

\* ------------------------------------------------------ InstaLooter.download
\* A worker as the pool sees it: waiting in queue.get ("idle"), downloading
\* `media` ("busy"), or exited ("dead"); killed is set by terminate().
Worker == [state |-> "idle", media |-> None, killed |-> FALSE]

Alive(w) == workers[w].state # "dead"

\* _init_destfs, pages(), _medias(): a URL is opened (and is ours to close);
\* resolving the target may need a first request, which can raise.
DownloadOpen ==
    /\ entry = "download"
    /\ pc = "start"
    /\ \E resolve_ok \in Remote :
         IF resolve_ok
         THEN /\ pc' = "init_workers"
              /\ error' = error
         ELSE /\ pc' = "raised"
              /\ error' = "SourceUnavailable"
    /\ dest_open' = cfg.dest_is_url
    /\ UNCHANGED <<entry, cfg, posts, pos, destfs, queue, medias_queued, i, workers,
                   registered, exited, put_log, taken_by, finished, failed, warned>>

\* Mutant: a None is put on the queue as soon as the workers are started,
\* before the fill.
InitWorkersPoisonsFirst ==
    /\ entry = "download"
    /\ pc = "init_workers"
    /\ workers' = [w \in 1..cfg.jobs |-> Worker]
    /\ queue' = <<None>>
    /\ put_log' = Append(put_log, None)
    /\ registered' = TRUE
    /\ pc' = "fill"
    /\ UNCHANGED <<entry, cfg, posts, pos, destfs, medias_queued, i, exited,
                   dest_open, taken_by, finished, failed, warned, error>>

\* _init_workers: self.jobs workers are created and started on a new queue;
\* then atexit.register(self._shutdown_workers, workers).
InitWorkers ==
    /\ entry = "download"
    /\ pc = "init_workers"
    /\ workers' = [w \in 1..cfg.jobs |-> Worker]
    /\ queue' = <<>>
    /\ registered' = TRUE
    /\ pc' = "fill"
    /\ UNCHANGED <<entry, cfg, posts, pos, destfs, medias_queued, i, exited,
                   dest_open, put_log, taken_by, finished, failed, warned, error>>

\* Mutant: an empty fill is an error that ends download.
AfterFillAbortsOnEmpty ==
    /\ entry = "download"
    /\ pc = "filled"
    /\ warned' = (medias_queued = 0)
    /\ i' = 0
    /\ pc' = IF medias_queued = 0 THEN "raised" ELSE "poison"
    /\ UNCHANGED <<entry, cfg, posts, pos, destfs, queue, medias_queued, workers,
                   registered, exited, dest_open, put_log, taken_by, finished, failed, error>>

\* After the fill: finish the page bar, warn when nothing was queued.
AfterFill ==
    /\ entry = "download"
    /\ pc = "filled"
    /\ warned' = (medias_queued = 0)
    /\ i' = 0
    /\ pc' = "poison"
    /\ UNCHANGED <<entry, cfg, posts, pos, destfs, queue, medias_queued, workers,
                   registered, exited, dest_open, put_log, taken_by, finished, failed, error>>

\* Mutant: the poison loop runs once too often.
PoisonWorkersExtra ==
    /\ pc = "poison"
    /\ IF i <= Len(workers)
       THEN /\ queue' = Append(queue, None)
            /\ put_log' = Append(put_log, None)
            /\ i' = i + 1
            /\ pc' = "poison"
       ELSE /\ pc' = "join"
            /\ UNCHANGED <<queue, put_log, i>>
    /\ UNCHANGED <<entry, cfg, posts, pos, destfs, medias_queued, workers, registered,
                   exited, dest_open, taken_by, finished, failed, warned, error>>

\* _poison_workers: for worker in workers: queue.put(None), one put per step.
PoisonWorkers ==
    /\ pc = "poison"
    /\ IF i < Len(workers)
       THEN /\ queue' = Append(queue, None)
            /\ put_log' = Append(put_log, None)
            /\ i' = i + 1
            /\ pc' = "poison"
       ELSE /\ pc' = "join"
            /\ UNCHANGED <<queue, put_log, i>>
    /\ UNCHANGED <<entry, cfg, posts, pos, destfs, medias_queued, workers, registered,
                   exited, dest_open, taken_by, finished, failed, warned, error>>

\* Mutant: _join_workers returns without waiting.
JoinWorkersNoWait ==
    /\ pc = "join"
    /\ pc' = "close"
    /\ UNCHANGED <<entry, cfg, posts, pos, destfs, queue, medias_queued, i, workers,
                   registered, exited, dest_open, put_log, taken_by, finished, failed,
                   warned, error>>

\* Mutant: _join_workers joins the first worker only.
JoinWorkersFirstOnly ==
    /\ \/ /\ pc = "join"
          /\ IF \E w \in 1..Len(workers) : Alive(w)
             THEN pc' = "joining" /\ i' = 1
             ELSE pc' = "close" /\ i' = i
       \/ /\ pc = "joining"
          /\ ~Alive(i)
          /\ pc' = "close" /\ i' = i
    /\ UNCHANGED <<entry, cfg, posts, pos, destfs, queue, medias_queued, workers,
                   registered, exited, dest_open, put_log, taken_by, finished, failed,
                   warned, error>>

\* _join_workers: if any(w.is_alive() ...): join every worker in turn.
\* worker.join() returns once that worker has exited.
JoinWorkers ==
    /\ \/ /\ pc = "join"
          /\ IF \E w \in 1..Len(workers) : Alive(w)
             THEN pc' = "joining" /\ i' = 1
             ELSE pc' = "close" /\ i' = i
       \/ /\ pc = "joining"
          /\ ~Alive(i)
          /\ IF i < Len(workers)
             THEN pc' = "joining" /\ i' = i + 1
             ELSE pc' = "close" /\ i' = i
    /\ UNCHANGED <<entry, cfg, posts, pos, destfs, queue, medias_queued, workers,
                   registered, exited, dest_open, put_log, taken_by, finished, failed,
                   warned, error>>

\* The end of download: close the destination if it was opened here, return.
DownloadReturn ==
    /\ entry = "download"
    /\ pc = "close"
    /\ dest_open' = FALSE
    /\ pc' = "done"
    /\ UNCHANGED <<entry, cfg, posts, pos, destfs, queue, medias_queued, i, workers,
                   registered, exited, put_log, taken_by, finished, failed, warned, error>>

\* Mutant: terminate() reaches the first worker only.
ShutdownWorkersFirstOnly ==
    /\ pc \in {"done", "raised"}
    /\ registered
    /\ ~exited
    /\ workers' = [w \in 1..Len(workers) |->
                     IF w = 1 THEN [workers[w] EXCEPT !.killed = TRUE] ELSE workers[w]]
    /\ exited' = TRUE
    /\ UNCHANGED <<entry, cfg, posts, pos, destfs, queue, medias_queued, pc, i,
                   registered, dest_open, put_log, taken_by, finished, failed, warned, error>>

\* _shutdown_workers, run as an exit hook once the main thread has left
\* download: worker.terminate() for every worker.
ShutdownWorkers ==
    /\ pc \in {"done", "raised"}
    /\ registered
    /\ ~exited
    /\ workers' = [w \in 1..Len(workers) |-> [workers[w] EXCEPT !.killed = TRUE]]
    /\ exited' = TRUE
    /\ UNCHANGED <<entry, cfg, posts, pos, destfs, queue, medias_queued, pc, i,
                   registered, dest_open, put_log, taken_by, finished, failed, warned, error>>

\* ------------------------------------------------------- PostLooter.download
\* PostLooter.pages: a generator with a single yield, of one page that holds
\* self.info as its only edge and says there is no next page.
PostPages ==
    <<[count |-> 1, has_next_page |-> FALSE, end_cursor |-> None,
       edges |-> <<PostInfo(1)>>]>>

\* _init_destfs and a new queue; no worker exists during the fill.
PostOpen ==
    /\ entry = "post"
    /\ pc = "start"
    /\ dest_open' = cfg.dest_is_url
    /\ queue' = <<>>
    /\ pc' = "fill"
    /\ UNCHANGED <<entry, cfg, posts, pos, destfs, medias_queued, i, workers,
                   registered, exited, put_log, taken_by, finished, failed, warned, error>>

\* Mutant: the None is not put before the worker is run.
PostRunNoSentinel ==
    /\ entry = "post"
    /\ pc = "filled"
    /\ workers' = <<Worker>>
    /\ pc' = "running"
    /\ UNCHANGED <<entry, cfg, posts, pos, destfs, queue, medias_queued, i, registered,
                   exited, dest_open, put_log, taken_by, finished, failed, warned, error>>

\* queue.put(None), then one InstaDownloader is built and worker.run() is
\* called in the main thread.
PostRun ==
    /\ entry = "post"
    /\ pc = "filled"
    /\ queue' = Append(queue, None)
    /\ put_log' = Append(put_log, None)
    /\ workers' = <<Worker>>
    /\ pc' = "running"
    /\ UNCHANGED <<entry, cfg, posts, pos, destfs, medias_queued, i, registered,
                   exited, dest_open, taken_by, finished, failed, warned, error>>

\* worker.run() has returned: return medias_queued (the destination is left open).
PostReturn ==
    /\ entry = "post"
    /\ pc = "running"
    /\ ~Alive(1)
    /\ pc' = "done"
    /\ UNCHANGED <<entry, cfg, posts, pos, destfs, queue, medias_queued, i, workers,
                   registered, exited, dest_open, put_log, taken_by, finished, failed,
                   warned, error>>

\* ----------------------------------------------------------- InstaDownloader
WorkerUnchanged == UNCHANGED <<entry, cfg, posts, pos, medias_queued, pc, i,
                               registered, exited, dest_open, put_log, warned, error>>

\* Mutant: a worker that takes a None goes back to waiting on the queue.
WorkerGetSurvivesNone(w) ==
    /\ w \in 1..Len(workers)
    /\ workers[w].state = "idle"
    /\ ~workers[w].killed
    /\ queue # <<>>
    /\ queue' = Tail(queue)
    /\ IF Head(queue) = None
       THEN UNCHANGED <<workers, taken_by>>
       ELSE /\ workers' = [workers EXCEPT ![w].state = "busy", ![w].media = Head(queue)]
            /\ taken_by' = [taken_by EXCEPT ![Head(queue).shortcode] = Append(@, w)]
    /\ UNCHANGED <<destfs, finished, failed>>
    /\ WorkerUnchanged

\* queue.get(): a Sentinel ends the worker, a media is taken for download.
WorkerGet(w) ==
    /\ w \in 1..Len(workers)
    /\ workers[w].state = "idle"
    /\ ~workers[w].killed
    /\ queue # <<>>
    /\ queue' = Tail(queue)
    /\ IF Head(queue) = None
       THEN /\ workers' = [workers EXCEPT ![w].state = "dead"]
            /\ UNCHANGED taken_by
       ELSE /\ workers' = [workers EXCEPT ![w].state = "busy", ![w].media = Head(queue)]
            /\ taken_by' = [taken_by EXCEPT ![Head(queue).shortcode] = Append(@, w)]
    /\ UNCHANGED <<destfs, finished, failed>>
    /\ WorkerUnchanged

\* Mutant: a failed download ends the worker.
WorkerDownloadDies(w) ==
    /\ w \in 1..Len(workers)
    /\ workers[w].state = "busy"
    /\ LET media == workers[w].media
       IN  /\ finished' = finished \cup {media.shortcode}
           /\ \E ok \in Remote :
                IF ok
                THEN /\ destfs' = IF media.typename = "GraphSidecar" THEN destfs
                                  ELSE destfs \cup {media.shortcode}
                     /\ workers' = [workers EXCEPT ![w].state = "idle", ![w].media = None]
                     /\ UNCHANGED failed
                ELSE /\ failed' = failed \cup {media.shortcode}
                     /\ workers' = [workers EXCEPT ![w].state = "dead", ![w].media = None]
                     /\ UNCHANGED destfs
    /\ UNCHANGED <<queue, taken_by>>
    /\ WorkerUnchanged

\* The download of the media in hand: it succeeds and the file is written, or
\* it fails and the failure is reported; either way the worker goes on.
WorkerDownload(w) ==
    /\ w \in 1..Len(workers)
    /\ workers[w].state = "busy"
    /\ LET media == workers[w].media
       IN  /\ finished' = finished \cup {media.shortcode}
           /\ \E ok \in Remote :
                IF ok
                THEN /\ destfs' = IF media.typename = "GraphSidecar" THEN destfs
                                  ELSE destfs \cup {media.shortcode}
                     /\ UNCHANGED failed
                ELSE /\ failed' = failed \cup {media.shortcode}
                     /\ UNCHANGED destfs
    /\ workers' = [workers EXCEPT ![w].state = "idle", ![w].media = None]
    /\ UNCHANGED <<queue, taken_by>>
    /\ WorkerUnchanged

\* The terminate signal reaches a worker that is not downloading: it exits,
\* whatever the queue holds.
WorkerKilled(w) ==
    /\ w \in 1..Len(workers)
    /\ workers[w].state = "idle"
    /\ workers[w].killed
    /\ workers' = [workers EXCEPT ![w].state = "dead"]
    /\ UNCHANGED <<destfs, queue, taken_by, finished, failed>>
    /\ WorkerUnchanged

WorkerNext(w) == WorkerGet(w) \/ WorkerDownload(w) \/ WorkerKilled(w)

\* ------------------------------------------------------------ specifications
\* The TimedMediasIterator download() built passes over a media newer than
\* the timeframe: the loop of the fill does not see it.
TimedSkip ==
    /\ pc = "fill"
    /\ NextMedia(TRUE).kind = "skip"
    /\ pos' = pos + 1
    /\ UNCHANGED <<pc, queue, medias_queued, put_log, error>>
    /\ FillUnchanged

MainNext ==
    \/ DownloadOpen \/ InitWorkers \/ FillNext \/ TimedSkip \/ AfterFill \/ PoisonWorkers
    \/ JoinWorkers \/ DownloadReturn \/ PostOpen \/ PostRun \/ PostReturn

Next == MainNext \/ ShutdownWorkers \/ \E w \in 1..MaxJobs : WorkerNext(w)

\* The posts of the worker-pool runs: images and videos.
PoolKinds == {k \in Kinds : k.typename # "GraphSidecar"}

\* download() of a profile or hashtag looter with `jobs` workers.
InitDownload ==
    /\ entry = "download"
    /\ \E n \in 0..MaxPoolLen :
         /\ posts \in PostSeqs(n, PoolKinds)
         /\ destfs = {}
         /\ \E get_videos \in BOOLEAN, faulty \in BOOLEAN, jobs \in 1..MaxJobs :
              cfg = Config([condition |-> "None", get_videos |-> get_videos,
                            videos_only |-> FALSE],
                           [media_count_given |-> FALSE, media_count |-> 0],
                           FALSE, FALSE, FALSE, faulty, jobs, TRUE)
    /\ pc = "start"
    /\ Fresh

\* download() of a PostLooter: one post.
InitPost ==
    /\ entry = "post"
    /\ posts \in PostSeqs(1, Kinds)
    /\ destfs \in SUBSET {1}
    /\ \E c \in ConditionChoices, new_only \in BOOLEAN, faulty \in BOOLEAN :
         cfg = Config(c, [media_count_given |-> FALSE, media_count |-> 0],
                      new_only, FALSE, FALSE, faulty, 1, TRUE)
    /\ pc = "start"
    /\ Fresh

\* download_pictures(destination, media_count=10) with jobs=2 on the scenario
\* of the specification: [img1, vid1, img2 (existing), img3,
\* sidecar1{child_img, child_vid}], new_only false, a remote that answers.
ScenarioPosts ==
    <<Media(1, "GraphImage", FALSE, <<>>), Media(2, "GraphVideo", TRUE, <<>>),
      Media(3, "GraphImage", FALSE, <<>>), Media(4, "GraphImage", FALSE, <<>>),
      Media(5, "GraphSidecar", FALSE, <<img, vid>>)>>

ScenarioCfg ==
    Config([condition |-> "pictures", get_videos |-> FALSE, videos_only |-> FALSE],
           [media_count_given |-> TRUE, media_count |-> 10],
           FALSE, FALSE, FALSE, FALSE, 2, TRUE)

InitScenario ==
    /\ entry = "download"
    /\ posts = ScenarioPosts
    /\ destfs = {3}
    /\ cfg = ScenarioCfg
    /\ pc = "start"
    /\ Fresh

\* The timestamps and the timeframes explored.
Times == 1..MaxTime

Timeframes == {[given |-> TRUE, start |-> a, end |-> b] : a \in Times, b \in Times}

\* download(destination, timeframe=(start, end)) of a profile or hashtag
\* looter, whose pages come newest first, and of a PostLooter; one worker, a
\* remote that answers.
InitTimed ==
    /\ entry \in {"download", "post"}
    /\ \E n \in IF entry = "post" THEN {1} ELSE 0..MaxPoolLen :
         \E base \in PostSeqs(n, PoolKinds), t \in [1..n -> Times] :
            /\ \A p, q \in 1..n : p < q => t[p] >= t[q]
            /\ posts = [p \in 1..n |-> [base[p] EXCEPT !.taken_at_timestamp = t[p]]]
    /\ destfs = {}
    /\ \E tf \in Timeframes :
         /\ tf.start >= tf.end
         /\ cfg = [Config([condition |-> "None", get_videos |-> TRUE,
                           videos_only |-> FALSE],
                          [media_count_given |-> FALSE, media_count |-> 0],
                          FALSE, FALSE, FALSE, FALSE, 1, TRUE)
                   EXCEPT !.timeframe = tf]
    /\ pc = "start"
    /\ Fresh

Init == InitDownload \/ InitPost \/ InitScenario \/ InitTimed

Spec == Init /\ [][Next]_vars

\* Threads are scheduled fairly, the main thread keeps running, and the exit
\* hooks run once the main thread is through.
Fairness ==
    /\ WF_vars(MainNext)
    /\ WF_vars(ShutdownWorkers)
    /\ \A w \in 1..MaxJobs : WF_vars(WorkerNext(w))

FairSpec == Spec /\ Fairness

\* ==================================================================== claims
IsSidecar(media) == media.typename = "GraphSidecar"

\* The children of a sidecar that satisfy the condition.
MatchingChildren(media) ==
    {j \in 1..Len(media.children) : condition(media.children[j])}

\* A post the fill accepts when it gets to it: it passes the condition and, for
\* a sidecar, at least one of its children does.
Acceptable(post) ==
    /\ condition(post)
    /\ IsSidecar(post) => MatchingChildren(post) # {}

\* Positions of the acceptable posts among the first n.
AcceptableUpTo(n) == {p \in 1..n : p <= Len(posts) /\ Acceptable(posts[p])}

\* The method has returned its count.
Returned == pc = "filled"

C2_ExactlyMaxCount ==
    (/\ Returned
     /\ cfg.media_count_given
     /\ ~cfg.new_only
     /\ Cardinality(AcceptableUpTo(Len(posts))) >= cfg.media_count)
    => /\ medias_queued = cfg.media_count
       /\ Len(put_log) = cfg.media_count
       /\ Cardinality(AcceptableUpTo(pos)) = cfg.media_count
       /\ pos > 0 => Acceptable(posts[pos])

\* C2 for k >= 1: the same statement without media_count = 0.
C2_ExactlyMaxCountPositive == cfg.media_count >= 1 => C2_ExactlyMaxCount

\* The first position whose post is acceptable and whose target path exists.
HaltSet == {p \in 1..Len(posts) : Acceptable(posts[p]) /\ p \in destfs}
HaltPos == CHOOSE p \in HaltSet : \A q \in HaltSet : p <= q

\* The first position whose target path exists.
FirstExisting == CHOOSE p \in destfs : \A q \in destfs : p <= q

\* C3 (as claimed): with new_only set and the first existing record at
\* position p, a fill that nothing else stops halts at p: p items were taken,
\* the count is the number of acceptable items before p, and neither the record
\* at p nor a later one is on the queue.
C3_HaltsAtFirstExisting ==
    (Returned /\ cfg.new_only /\ ~cfg.media_count_given /\ destfs # {})
    => /\ pos = FirstExisting
       /\ medias_queued = Cardinality(AcceptableUpTo(FirstExisting - 1))
       /\ \A k \in 1..Len(put_log) : put_log[k].shortcode < FirstExisting

\* C3 (amended): with new_only set, the fill never goes past the first record
\* that is acceptable and exists (position p); when the fill gets to p the
\* count is the number of acceptable items before p and no record from p on is
\* queued; and a fill that returns has got to p unless media_count stopped it.
C3_HaltsAtFirstAcceptedExisting ==
    (entry = "fill" /\ cfg.new_only /\ HaltSet # {})
    => /\ pos <= HaltPos
       /\ \A k \in 1..Len(put_log) : put_log[k].shortcode < HaltPos
       /\ pos = HaltPos =>
            /\ pc \in {"filled", "raised"}
            /\ medias_queued = Cardinality(AcceptableUpTo(HaltPos - 1))
       /\ Returned => (pos = HaltPos \/ CountReached(medias_queued))

\* C3 witness: the fill halted at an acceptable existing record at position 2,
\* after it had queued the record before it.
C3_Witness ==
    /\ entry = "fill"
    /\ Returned
    /\ cfg.new_only
    /\ ~cfg.media_count_given
    /\ HaltSet # {}
    /\ HaltPos = 2
    /\ pos = 2
    /\ medias_queued = 1

\* C10 (as claimed): a get_post_info that fails for one item never ends the
\* fill: no run is left by the error of an item fetch.
C10_ItemFailureDropsItemOnly == error # "ItemFetchFailed"

\* ----------------------------------------------------- claims on the pool
\* The Sentinels put on the queue so far.
Sentinels == Cardinality({k \in 1..Len(put_log) : put_log[k] = None})

\* The media records put on the queue so far, in order.
MediaLog == SelectSeq(put_log, LAMBDA m : m # None)

AllDead == \A w \in 1..Len(workers) : ~Alive(w)

InScenario == posts = ScenarioPosts /\ cfg = ScenarioCfg

\* C4: in the scenario [img1, vid1, img2 (existing), img3,
\* sidecar1{child_img, child_vid}] with the images-only condition, maxCount 10
\* and new_only false, the queue receives [img1, img2, img3, sidecar1{child_img}]
\* in that order and the accepted count is 4.
C4_ScenarioQueue ==
    (InScenario /\ pc \notin {"start", "init_workers", "fill"})
    => /\ MediaLog = <<ScenarioPosts[1], ScenarioPosts[3], ScenarioPosts[4],
                       [ScenarioPosts[5] EXCEPT !.children = <<img>>, !.detailed = TRUE]>>
       /\ medias_queued = 4

\* C4 witness: the scenario run has returned.
C4_Witness == InScenario /\ pc = "done" /\ medias_queued = 4

\* C5 (as claimed): whenever a download invocation has ended, and it was not
\* ended by a failed item fetch, as many Sentinels were put as workers were
\* started, and download() starts self.jobs workers.
C5_SentinelsEqualWorkers ==
    (pc \in {"done", "raised"} /\ error # "ItemFetchFailed")
    => /\ Sentinels = Len(workers)
       /\ (entry = "download" /\ registered) => Len(workers) = cfg.jobs

\* C5 (amended): whenever a download invocation has returned, as many
\* Sentinels were put as workers were started; download() starts self.jobs
\* workers; an invocation an exception ended has put no Sentinel.
C5_SentinelsEqualWorkersOnReturn ==
    /\ pc = "done" => Sentinels = Len(workers)
    /\ (entry = "download" /\ registered) => Len(workers) = cfg.jobs
    /\ entry = "post" => Len(workers) <= 1
    /\ pc = "raised" => Sentinels = 0

\* C5 witness: a download() with two workers has returned after two Sentinels.
C5_Witness ==
    /\ entry = "download"
    /\ pc = "done"
    /\ Len(workers) = 2
    /\ Sentinels = 2

\* n workers are started and n Sentinels are on the queue or consumed.
Poisoned == entry = "download" /\ pc \in {"join", "joining"}

\* C6: once the n workers are started and n Sentinels are enqueued, all n
\* workers eventually terminate; and _join_workers has returned only in states
\* where every worker has exited.
C6_PoisonedPoolTerminates ==
    /\ [](pc \in {"close", "done"} => AllDead)
    /\ Poisoned ~> AllDead

\* C6 witness: _join_workers has returned for a pool of two workers that had
\* media to download.
C6_Witness ==
    /\ entry = "download"
    /\ pc = "close"
    /\ Len(workers) = 2
    /\ finished # {}

\* C7: no media record is dequeued twice, and when download has returned every
\* media record the fill put on the queue was dequeued by exactly one worker
\* and its processing has ended.
C7_EachAcceptedProcessedOnce ==
    /\ \A p \in 1..Len(posts) : Len(taken_by[p]) <= 1
    /\ pc = "done" =>
         \A k \in 1..Len(put_log) :
             put_log[k] # None =>
                 /\ Len(taken_by[put_log[k].shortcode]) = 1
                 /\ put_log[k].shortcode \in finished

\* C7 witness: download has returned after two workers took one record each,
\* the second worker the first record.
C7_Witness ==
    /\ entry = "download"
    /\ pc = "done"
    /\ Len(posts) >= 2
    /\ taken_by[1] = <<2>>
    /\ taken_by[2] = <<1>>

\* C8: the step in which a download fails leaves its worker waiting for the
\* next queue item, changes no other worker and leaves the queue as it is; and
\* when download has returned every accepted record was processed, failures or
\* not.
C8_FailureKeepsWorkerAlive ==
    /\ [][failed' # failed =>
            /\ queue' = queue
            /\ \E w \in 1..Len(workers) :
                 /\ workers[w].state = "busy"
                 /\ workers'[w].state = "idle"
                 /\ \A v \in 1..Len(workers) : v # w => workers'[v] = workers[v]]_vars
    /\ [](pc = "done" =>
            \A k \in 1..Len(put_log) :
                put_log[k] # None => put_log[k].shortcode \in finished)

\* C8 witness: a single worker failed on the first record and went on to
\* process the second.
C8_Witness ==
    /\ entry = "download"
    /\ pc = "done"
    /\ Len(workers) = 1
    /\ Len(posts) >= 2
    /\ 1 \in failed
    /\ taken_by[2] = <<1>>
    /\ 2 \in finished
    /\ 2 \notin failed

\* C9: once _shutdown_workers has run every started worker has received
\* terminate, and every worker eventually exits, whatever the queue holds.
C9_ShutdownStopsEveryWorker ==
    /\ [](exited => \A w \in 1..Len(workers) : workers[w].killed)
    /\ exited ~> AllDead

\* C9 witness: after an aborted download the hook ran and both workers exited
\* although the queue holds a media record and no Sentinel.
C9_Witness ==
    /\ exited
    /\ pc = "raised"
    /\ Len(workers) = 2
    /\ AllDead
    /\ queue # <<>>
    /\ Sentinels = 0

\* C11: once a page fetch has failed during discovery the download is aborted
\* with the error: from the failing step on the run stays raised (it never
\* gets to the return of the accepted count), the error stays the one of the
\* source, and nothing more is put on the queue.
C11_SourceFailureAborts ==
    [][error' = "SourceUnavailable" =>
          /\ pc' = "raised"
          /\ put_log' = put_log
          /\ medias_queued' = medias_queued]_vars

\* A page fetch failed in the middle of discovery, after a record was queued.
C11_Witness ==
    /\ entry = "download"
    /\ error = "SourceUnavailable"
    /\ pc = "raised"
    /\ Len(put_log) >= 1
    /\ pos < Len(posts)

\* C12: at every step of the fill, and up to the return of download, the
\* running count medias_queued (the value download returns) is the number of
\* media records put on the queue so far, whatever the workers did with them.
C12_CountEqualsEnqueued == medias_queued = Len(MediaLog)

\* download has returned a count of one or more although a worker failed on
\* one of the records: fewer files were written than records were counted.
C12_Witness ==
    /\ entry = "download"
    /\ pc = "done"
    /\ medias_queued >= 1
    /\ failed # {}
    /\ Cardinality(finished \ failed) < medias_queued

\* C13: for every looter kind, a destination given as a locator string (and so
\* opened by download) is closed by the time download has returned.
C13_OpenedDestinationClosed ==
    (pc = "done" /\ cfg.dest_is_url) => ~dest_open

\* C14: with extended_dump set, every record put on the queue is the detailed
\* form that get_post_info returns, also a plain image whose name does not
\* need it.
C14_ExtendedDumpRefetchesAll ==
    cfg.extended_dump => \A k \in 1..Len(put_log) : put_log[k].detailed

\* What the configuration says of a record, in terms of the arguments the
\* looter was built with.
ConfiguredAccepts(media) ==
    IF cfg.videos_only THEN media.is_video
    ELSE IF cfg.get_videos_arg THEN TRUE
    ELSE ~media.is_video

\* The posts whose record is on the queue.
QueuedCodes == {put_log[k].shortcode : k \in 1..Len(put_log)}

\* C15: when no condition is passed, the condition of the fill accepts a
\* record exactly when the configuration says so (videos_only: the videos,
\* whatever get_videos was; get_videos alone: every record; neither: the
\* records that are not videos), and the fill acts on it: as long as nothing
\* stopped it, an image or video it went past is on the queue exactly when
\* the configuration accepts it.
C15_DefaultConditionByConfiguration ==
    cfg.condition = "None" =>
      /\ \A p \in 1..Len(posts) :
            condition(Summary(posts[p])) <=> ConfiguredAccepts(posts[p])
      /\ (~cfg.new_only /\ error = "None") =>
            \A p \in 1..pos :
              ~IsSidecar(posts[p]) =>
                (p \in QueuedCodes <=> ConfiguredAccepts(posts[p]))

\* A looter built with videos_only and without get_videos went past an image
\* and a video: only the video is on the queue.
C15_Witness ==
    /\ cfg.condition = "None"
    /\ cfg.videos_only
    /\ ~cfg.get_videos_arg
    /\ ~cfg.new_only
    /\ error = "None"
    /\ pos = 2
    /\ posts[1].typename = "GraphImage"
    /\ posts[2].typename = "GraphVideo"
    /\ QueuedCodes = {2}

\* The fill of a download has returned without having accepted a record.
ZeroAccepted == entry = "download" /\ pc = "filled" /\ medias_queued = 0

\* C16: a download whose fill accepted nothing is not aborted: it goes on to
\* its return, and when it returns the warning was issued, one None per
\* worker was put on the queue, every worker has exited and the count is 0.
C16_ZeroAcceptedStillCompletes ==
    ZeroAccepted ~>
        /\ pc = "done"
        /\ warned
        /\ Sentinels = cfg.jobs
        /\ AllDead
        /\ medias_queued = 0
        /\ error = "None"

\* A download with two workers found records, accepted none and returned.
C16_Witness ==
    /\ entry = "download"
    /\ pc = "done"
    /\ Len(posts) >= 1
    /\ medias_queued = 0
    /\ warned
    /\ cfg.jobs = 2
    /\ Sentinels = 2
    /\ AllDead

\* The children of a sidecar that satisfy the condition, in their order.
KeptChildren(media) == SelectSeq(media.children, LAMBDA c : condition(c))

\* C17: a sidecar whose own fields fail the condition while one of its
\* children satisfies it is not rejected: once a fill that nothing stopped is
\* past it, it is on the queue with the children that satisfy the condition.
C17_SidecarJudgedByChildren ==
    (~cfg.new_only /\ error = "None") =>
        \A p \in 1..pos :
            ( /\ IsSidecar(posts[p])
              /\ ~condition(Summary(posts[p]))
              /\ KeptChildren(posts[p]) # <<>> )
            => \E k \in 1..Len(put_log) :
                  /\ put_log[k].shortcode = p
                  /\ put_log[k].children = KeptChildren(posts[p])

\* C18: the step of the fill that takes a sidecar either leaves the queue as
\* it is or puts the sidecar with exactly the children that satisfy the
\* condition, in their original order, and counts it; a sidecar none of whose
\* children satisfies the condition is not put and not counted, and the fill
\* stays in its loop for the next record.
C18_PruningKeepsExactlyMatching ==
    [][(pos' = pos + 1 /\ error' = "None" /\ IsSidecar(posts[pos'])) =>
          IF KeptChildren(posts[pos']) = <<>>
          THEN /\ put_log' = put_log
               /\ medias_queued' = medias_queued
               /\ pc' = "fill"
          ELSE \/ /\ put_log' = put_log
                  /\ medias_queued' = medias_queued
               \/ /\ put_log' = Append(put_log, [PostInfo(pos') EXCEPT
                                      !.children = KeptChildren(posts[pos'])])
                  /\ medias_queued' = medias_queued + 1]_vars

\* The fill skipped a sidecar that passed the condition and had no matching
\* child, went on, and put the next sidecar with two of its four children.
C18_Witness ==
    /\ entry = "fill"
    /\ pos = 2
    /\ error = "None"
    /\ IsSidecar(posts[1])
    /\ condition(Summary(posts[1]))
    /\ KeptChildren(posts[1]) = <<>>
    /\ Len(posts[2].children) = 4
    /\ medias_queued = 1
    /\ Len(put_log) = 1
    /\ put_log[1].shortcode = 2
    /\ put_log[1].children = <<img, img>>

\* C19: the records are put in the order of the media sequence (the
\* shortcode of a post is its position in the sequence), and the queue hands
\* them out in that order: what is still on the queue is the tail end of what
\* was put, so a record put earlier has been taken before any later one is.
C19_QueueKeepsSequenceOrder ==
    /\ \A j, k \in 1..Len(MediaLog) :
          j < k => MediaLog[j].shortcode < MediaLog[k].shortcode
    /\ Len(queue) <= Len(put_log)
    /\ queue = SubSeq(put_log, Len(put_log) - Len(queue) + 1, Len(put_log))

\* Two records were accepted by a download; a worker has taken the first one
\* and the second is still the head of the queue.
C19_Witness ==
    /\ entry = "download"
    /\ Len(MediaLog) >= 2
    /\ taken_by[MediaLog[1].shortcode] # <<>>
    /\ queue # <<>>
    /\ Head(queue) = MediaLog[2]
    /\ taken_by[MediaLog[2].shortcode] = <<>>

\* C20: with new_only false the result of the fill is the same whatever the
\* destination holds: a fill that has returned has put, in this order, the
\* records a fill of the same sequence with the same condition and media_count
\* puts on any other destination, and its count is their number; a record
\* whose file exists is among them.
C20_FillIndependentOfDestination ==
    (~cfg.new_only /\ Returned) =>
        \A dest \in SUBSET (1..Len(posts)) :
            /\ put_log = FillOn(dest, 1, <<>>)
            /\ medias_queued = Len(FillOn(dest, 1, <<>>))

\* A fill with new_only false has returned after putting two records, the
\* file of the first of which was in the destination and that of the second
\* was not.
C20_Witness ==
    /\ entry = "fill"
    /\ ~cfg.new_only
    /\ Returned
    /\ medias_queued = 2
    /\ put_log[1].shortcode \in destfs
    /\ put_log[2].shortcode \notin destfs

\* C21: in every state of a download (of any looter) what was put on the
\* queue is media records followed by Nones: a None is put only once the fill
\* has returned, no media record is put after a None, and on the queue itself
\* no media record waits behind a None, so a worker that takes a None leaves
\* no media record behind.
C21_MediaThenSentinels ==
    /\ \A j, k \in 1..Len(put_log) :
          (j < k /\ put_log[j] = None) => put_log[k] = None
    /\ Sentinels > 0 => pc \in {"poison", "join", "joining", "close", "done", "running"}
    /\ \A j, k \in 1..Len(queue) :
          (j < k /\ queue[j] = None) => queue[k] = None

\* A download put two media records and then its Nones; a worker has taken a
\* None and exited, and every media record had been taken before.
C21_Witness ==
    /\ entry = "download"
    /\ Len(MediaLog) = 2
    /\ Sentinels >= 1
    /\ \E w \in 1..Len(workers) : ~Alive(w) /\ ~workers[w].killed
    /\ \A k \in 1..Len(MediaLog) : taken_by[MediaLog[k].shortcode] # <<>>

\* The Nones still on the queue.
SentinelsWaiting == Cardinality({k \in 1..Len(queue) : queue[k] = None})

\* The workers that have exited.
Dead == {w \in 1..Len(workers) : ~Alive(w)}

\* C22: a worker that has exited never runs again; every item is taken off
\* the queue by one worker that was waiting (so never by one that has taken
\* a None), and taking a None ends that worker and no other; as long as no
\* terminate signal was sent, the Nones taken are as many as the workers
\* that have exited.
C22_OneSentinelPerWorker ==
    /\ [](~exited => Sentinels - SentinelsWaiting = Cardinality(Dead))
    /\ [][/\ \A w \in Dead : w <= Len(workers') /\ workers'[w].state = "dead"
          /\ (queue # <<>> /\ queue' = Tail(queue)) =>
                \E w \in 1..Len(workers) :
                    /\ workers[w].state = "idle"
                    /\ workers'[w].state =
                          IF Head(queue) = None THEN "dead" ELSE "busy"
                    /\ \A v \in 1..Len(workers) :
                          v # w => workers'[v] = workers[v]]_vars

\* Both workers of a download have taken their None and exited before any
\* terminate signal, after a record went through the queue.
C22_Witness ==
    /\ entry = "download"
    /\ Len(workers) = 2
    /\ Dead = {1, 2}
    /\ ~exited
    /\ Sentinels = 2
    /\ SentinelsWaiting = 0
    /\ Len(MediaLog) >= 1

\* C23: the pages of a PostLooter are one page with one item and no next
\* page; its download runs a single worker, only after the fill, on a queue
\* that was given the accepted record (if any) and then one None; it always
\* ends (with a remote that answers, by returning), and what it returns is
\* the number of records put, 0 or 1.
C23_SinglePostDownloadTerminates ==
    /\ [](entry = "post" =>
            /\ Len(PostPages) = 1
            /\ Len(PostPages[1].edges) = 1
            /\ ~PostPages[1].has_next_page
            /\ Len(posts) = Len(PostPages[1].edges)
            /\ Len(workers) <= 1
            /\ Len(workers) = 1 => pc \in {"running", "done"}
            /\ Len(MediaLog) <= 1
            /\ pc \in {"running", "done"} => put_log = MediaLog \o <<None>>
            /\ pc = "done" => /\ medias_queued \in {0, 1}
                              /\ medias_queued = Len(MediaLog)
                              /\ AllDead)
    /\ ((entry = "post" /\ pc = "start") ~> pc \in {"done", "raised"})
    /\ ((entry = "post" /\ pc = "start" /\ ~cfg.faulty) ~> pc = "done")

\* The download of a post has returned 1: its worker took the record, worked
\* on it, took the None and exited.
C23_Witness ==
    /\ entry = "post"
    /\ pc = "done"
    /\ medias_queued = 1
    /\ Len(put_log) = 2
    /\ put_log[1] = PostPages[1].edges[1]
    /\ put_log[2] = None
    /\ finished = {1}
    /\ queue = <<>>

\* The media was taken within the timeframe of the call.
InTimeframe(media) == ~Newer(media) /\ ~Older(media)

\* C24: when download is given a timeframe, whatever the looter, no record
\* taken outside the timeframe is put on the queue.
C24_NothingOutsideTimeframeQueued ==
    cfg.timeframe.given =>
        \A k \in 1..Len(MediaLog) : InTimeframe(MediaLog[k])

====
